---- MODULE Spec2Model ----
(***************************************************************************)
(* Model of my_social_feed (src/app.py): six CSV-backed tables, the        *)
(* process-wide read-through cache in front of them, and the domain        *)
(* operations that read a table through the cache and then append to or    *)
(* overwrite the backing file.                                             *)
(*                                                                         *)
(* Text values are sequences of one-character strings so that lower(),     *)
(* strip(), len() and the CSV round trip are computed, not assumed.        *)
(* Identifiers produced by uuid4 are fresh naturals; timestamps produced   *)
(* by now_iso are whole seconds of a clock that never runs backwards.      *)
(***************************************************************************)
EXTENDS Integers, Sequences, FiniteSets, TLC

\* ------------------------------------------------------------------ bounds
MaxIds == 3        \* identifiers uuid4 hands out in one run
MaxArgId == 2      \* identifiers callers pass as arguments: 1..MaxArgId
MaxTime == 1       \* seconds the clock may advance
MaxUsers == 2      \* rows the users file may hold
MaxPosts == 2      \* rows the posts file may hold
MaxLikes == 2      \* rows the likes file may hold
MaxComments == 1   \* rows the comments file may hold
MaxFollows == 2    \* rows the follows file may hold
MaxReports == 2    \* rows the reports file may hold
MaxRows == 1       \* rows all six files may hold together in Spec
MaxTopK == 2       \* the largest topk asked of trending_hashtags
MaxRounds == 2     \* pairs of concurrent operations in one run

\* ------------------------------------------------------- program constants
MaxContentLen == 280

USERS_COLUMNS == <<"user_id", "user_password", "username", "username_lc",
                   "created_at", "bio", "avatar_url", "is_admin">>
POSTS_COLUMNS == <<"post_id", "author_id", "content", "created_at",
                   "is_retweet", "retweet_of_post_id">>
LIKES_COLUMNS == <<"post_id", "user_id", "created_at">>
COMMENTS_COLUMNS == <<"comment_id", "post_id", "author_id", "content",
                      "created_at", "parent_comment_id">>
FOLLOWS_COLUMNS == <<"follower_id", "followee_id", "created_at">>
REPORTS_COLUMNS == <<"report_id", "target_type", "target_id", "reporter_id",
                     "reason", "created_at", "resolved">>

\* column load_posts adds to a non-empty frame
DT_COLUMN == "_created_at_dt"

\* posts on one page of the feed
PAGE_SIZE == 10

\* the number of trending hashtags the sidebar asks for
TRENDING_TOPK == 10

\* the two choices of the feed-mode radio: every post, posts of followed users
MODE_ALL == "all"
MODE_FOLLOWING == "following"

\* the (success, message) pairs the operations return
MSG_NO_USERNAME == "enter a username"
MSG_NO_PASSWORD == "enter a password"
MSG_DUP_USERNAME == "duplicate username"
MSG_SIGNED_UP == "signed up"
MSG_NO_CONTENT == "enter content"
MSG_CONTENT_TOO_LONG == "content over 280"
MSG_POSTED == "posted"
MSG_NO_COMMENT == "enter a comment"
MSG_COMMENT_TOO_LONG == "comment over 280"
MSG_COMMENTED == "commented"
MSG_BAD_TARGET == "bad target type"
MSG_NO_REASON == "enter a reason"
MSG_REPORTED == "reported"

\* --------------------------------------------------------------- text
EmptyStr == <<>>
NoId == 0          \* the empty string in an identifier column / None
NoDt == -1         \* an empty cell of the _created_at_dt column

UpperChars == <<"A","B","C","D","E","F","G","H","I","J","K","L","M",
                "N","O","P","Q","R","S","T","U","V","W","X","Y","Z">>
LowerChars == <<"a","b","c","d","e","f","g","h","i","j","k","l","m",
                "n","o","p","q","r","s","t","u","v","w","x","y","z">>

\* str.lower() on one character
LowerChar(c) ==
  IF \E i \in DOMAIN UpperChars : UpperChars[i] = c
  THEN LowerChars[CHOOSE i \in DOMAIN UpperChars : UpperChars[i] = c]
  ELSE c

\* str.lower()
Lower(s) == [i \in DOMAIN s |-> LowerChar(s[i])]

\* the characters str.strip() removes (those for which str.isspace() holds);
\* a character without a TLA+ escape is written by its code point
Whitespace ==
  {" ", "\t", "\n", "\r", "\f", "U+000B", "U+001C", "U+001D", "U+001E",
   "U+001F", "U+0085", "U+00A0", "U+1680", "U+2000", "U+2001", "U+2002",
   "U+2003", "U+2004", "U+2005", "U+2006", "U+2007", "U+2008", "U+2009",
   "U+200A", "U+2028", "U+2029", "U+202F", "U+205F", "U+3000"}

RECURSIVE LStrip(_)
LStrip(s) ==
  IF s # <<>> /\ Head(s) \in Whitespace THEN LStrip(Tail(s)) ELSE s

RECURSIVE RStrip(_)
RStrip(s) ==
  IF s # <<>> /\ s[Len(s)] \in Whitespace
  THEN RStrip(SubSeq(s, 1, Len(s) - 1)) ELSE s

\* str.strip()
Strip(s) == RStrip(LStrip(s))

\* the words of the flag columns
S_True == <<"T", "r", "u", "e">>
S_False == <<"F", "a", "l", "s", "e">>
S_true == <<"t", "r", "u", "e">>

\* n copies of the character c
Rep(c, n) == [i \in 1..n |-> c]

\* cells pandas.read_csv parses as missing (its default na_values), which
\* fillna("") then turns into the empty string
NAValues ==
  { <<>>,
    <<"N","A">>, <<"N","/","A">>, <<"n","/","a">>, <<"#","N","/","A">>,
    <<"#","N","A">>, <<"#","N","/","A"," ","N","/","A">>, <<"<","N","A",">">>,
    <<"N","a","N">>, <<"n","a","n">>, <<"-","N","a","N">>, <<"-","n","a","n">>,
    <<"N","U","L","L">>, <<"n","u","l","l">>, <<"N","o","n","e">>,
    <<"1",".","#","I","N","D">>, <<"-","1",".","#","I","N","D">>,
    <<"1",".","#","Q","N","A","N">>, <<"-","1",".","#","Q","N","A","N">> }

\* one text cell through read_csv(dtype=str).fillna("")
NaFill(s) == IF s \in NAValues THEN EmptyStr ELSE s

\* the columns that hold free text or a flag word (every other column holds
\* an identifier or a timestamp, which parses as missing only when it is
\* already empty)
TextColumns == {"user_password", "username", "username_lc", "bio",
                "avatar_url", "content", "target_type", "reason",
                "is_admin", "is_retweet", "resolved"}

\* --------------------------------------------------------------- state
VARIABLES
  users,     \* data/users.csv    : [columns, rows]
  posts,     \* data/posts.csv
  likes,     \* data/likes.csv
  comments,  \* data/comments.csv
  follows,   \* data/follows.csv
  reports,   \* data/reports.csv
  cache,     \* st.cache_data entry of each load_* function
  now,       \* the clock now_iso reads, in seconds
  nextId,    \* the next identifier uuid4 returns
  last,      \* the last domain call: its name, arguments and return value
  session,   \* st.session_state["user"] of the one browser session
  writers,   \* the script runs that are inside a mutator: position and locals
  round      \* the files when the running pair of mutators began, and what
             \* has happened between the two since

files == <<users, posts, likes, comments, follows, reports>>
vars == <<users, posts, likes, comments, follows, reports,
          cache, now, nextId, last, session, writers, round>>

\* whoever calls the domain layer: domain functions leave them alone
callers == <<session, writers, round>>

Tables == {"users", "posts", "likes", "comments", "follows", "reports"}

ArgIds == 1..MaxArgId

\* two script runs (two browser sessions) of the one server process
Writers == {1, 2}

Idle == [pc |-> "idle", op |-> "none", a |-> NoId, b |-> NoId,
         df |-> [columns |-> <<>>, rows |-> <<>>]]

\* the files the concurrent mutators write
Store == [posts |-> posts, likes |-> likes, comments |-> comments,
          follows |-> follows]

NewRound(n) == [n |-> n, start |-> Store, overlap |-> FALSE,
                together |-> FALSE, erased |-> FALSE]

\* ------------------------------------------------- store access layer
\* ensure_csv on a missing file: the header and no rows
EmptyCsv(columns) == [columns |-> columns, rows |-> <<>>]

ColumnSet(df) == {df.columns[i] : i \in DOMAIN df.columns}

\* pd.read_csv(path, dtype=str).fillna("")
ReadCsv(file) ==
  [columns |-> file.columns,
   rows |-> [i \in DOMAIN file.rows |->
               [c \in DOMAIN file.rows[i] |->
                  IF c \in TextColumns THEN NaFill(file.rows[i][c])
                  ELSE file.rows[i][c]]]]

\* the body of load_posts: a non-empty frame gets the parsed-timestamp column
ReadPosts(file) ==
  LET df == ReadCsv(file) IN
  IF df.rows = <<>> THEN df
  ELSE [columns |-> IF DT_COLUMN \in ColumnSet(df) THEN df.columns
                    ELSE Append(df.columns, DT_COLUMN),
        rows |-> [i \in DOMAIN df.rows |->
                    [c \in DOMAIN df.rows[i] \cup {DT_COLUMN} |->
                       IF c = DT_COLUMN THEN df.rows[i].created_at
                       ELSE df.rows[i][c]]]]

\* what a load_* function computes on a cache miss
ReadTable(t) ==
  CASE t = "users" -> ReadCsv(users)
    [] t = "posts" -> ReadPosts(posts)
    [] t = "likes" -> ReadCsv(likes)
    [] t = "comments" -> ReadCsv(comments)
    [] t = "follows" -> ReadCsv(follows)
    [] t = "reports" -> ReadCsv(reports)

\* a load_* function under st.cache_data: the cached frame when there is one
Load(t) == IF cache[t].hit THEN cache[t].df ELSE ReadTable(t)

load_users == Load("users")
load_posts == Load("posts")
load_likes == Load("likes")
load_comments == Load("comments")
load_follows == Load("follows")
load_reports == Load("reports")

NoEntry == [hit |-> FALSE, df |-> EmptyCsv(<<>>)]

\* the cache after the load_* functions of the tables in ts have run
Loaded(ts) ==
  [t \in Tables |-> IF t \in ts THEN [hit |-> TRUE, df |-> Load(t)]
                    ELSE cache[t]]

\* clear_data_caches without load_comments.clear()
clear_data_caches_but_comments ==
  [t \in Tables |-> IF t = "comments" THEN cache[t] ELSE NoEntry]

\* the cache after clear_data_caches
clear_data_caches == [t \in Tables |-> NoEntry]

\* a row as DataFrame([row], columns=columns).to_csv(mode="a") leaves it in a
\* file with the given header: cells of columns the row lacks are empty
Cells(row, header) ==
  [c \in {header[i] : i \in DOMAIN header} |->
     IF c \in DOMAIN row THEN row[c] ELSE NoDt]

\* append_row: the header is written only to a missing or empty file
append_row(file, row) ==
  [columns |-> file.columns,
   rows |-> Append(file.rows, Cells(row, file.columns))]

\* overwrite_df / DataFrame.to_csv(path, index=False)
overwrite_df(df) == [columns |-> df.columns, rows |-> df.rows]

\* df[mask]: the rows that satisfy Keep, in order
Filter(df, Keep(_)) == [columns |-> df.columns, rows |-> SelectSeq(df.rows, Keep)]

\* mask.any()
AnyRow(df, P(_)) == \E i \in DOMAIN df.rows : P(df.rows[i])

\* the call record
Call(op, args, ret) == [op |-> op, args |-> args, ret |-> ret]
Result(ok, msg) == [ok |-> ok, msg |-> msg]
None == [found |-> FALSE]
Some(row) == [found |-> TRUE, row |-> row]
Done == [ok |-> TRUE]
Raised == [raised |-> TRUE]

\* ----------------------------------------------------------- bootstrap
Init ==
  /\ users = EmptyCsv(USERS_COLUMNS)
  /\ posts = EmptyCsv(POSTS_COLUMNS)
  /\ likes = EmptyCsv(LIKES_COLUMNS)
  /\ comments = EmptyCsv(COMMENTS_COLUMNS)
  /\ follows = EmptyCsv(FOLLOWS_COLUMNS)
  /\ reports = EmptyCsv(REPORTS_COLUMNS)
  /\ cache = [t \in Tables |-> NoEntry]
  /\ now = 0
  /\ nextId = 1
  /\ last = [op |-> "bootstrap"]
  /\ session = None
  /\ writers = [w \in Writers |-> Idle]
  /\ round = NewRound(1)

\* a second passes
Tick ==
  /\ now < MaxTime
  /\ now' = now + 1
  /\ UNCHANGED <<callers, files, cache, nextId, last>>

\* ------------------------------------------------------------- inputs
S_al == <<"a","l">>
S_Al == <<"A","l">>
S_NaN == <<"N","a","N">>
S_pw == <<"p","w">>
S_PW == <<"P","W">>
S_NA == <<"N","A">>
S_hi == <<"h","i">>
S_post == <<"p","o","s","t">>
S_Post == <<"P","o","s","t">>
S_comment == <<"c","o","m","m","e","n","t">>
S_user == <<"u","s","e","r">>
Blank == <<" ">>
FormFeed == <<"\f">>

SignupNames == {S_al, S_Al, S_NaN, Blank}
SignupPasswords == {S_pw, S_NA, EmptyStr}
LoginNames == {S_Al, S_NaN}
LoginPasswords == {S_pw, S_PW, S_NA, EmptyStr}

\* ---------------------------------------------------------------- users
\* username_exists: a row of load_users whose username_lc is username.lower()
username_exists(username) ==
  AnyRow(load_users, LAMBDA r : r.username_lc = Lower(username))

\* the row create_user builds
NewUser(username, password) ==
  [user_id |-> nextId, user_password |-> password, username |-> username,
   username_lc |-> Lower(username), created_at |-> now, bio |-> EmptyStr,
   avatar_url |-> EmptyStr, is_admin |-> S_False]

create_user(username, password) ==
  IF Strip(username) = EmptyStr THEN
    /\ last' = Call("create_user", <<username, password>>,
                    Result(FALSE, MSG_NO_USERNAME))
    /\ UNCHANGED <<callers, files, cache, now, nextId>>
  ELSE IF Strip(password) = EmptyStr THEN
    /\ last' = Call("create_user", <<username, password>>,
                    Result(FALSE, MSG_NO_PASSWORD))
    /\ UNCHANGED <<callers, files, cache, now, nextId>>
  ELSE IF username_exists(username) THEN
    /\ cache' = Loaded({"users"})
    /\ last' = Call("create_user", <<username, password>>,
                    Result(FALSE, MSG_DUP_USERNAME))
    /\ UNCHANGED <<callers, files, now, nextId>>
  ELSE
    /\ nextId <= MaxIds /\ Len(users.rows) < MaxUsers
    /\ users' = append_row(users, NewUser(username, password))
    /\ cache' = clear_data_caches
    /\ nextId' = nextId + 1
    /\ last' = Call("create_user", <<username, password>>,
                    Result(TRUE, MSG_SIGNED_UP))
    /\ UNCHANGED <<callers, posts, likes, comments, follows, reports, now>>

CreateUser == \E u \in SignupNames, p \in SignupPasswords : create_user(u, p)

\* the mask of verify_login on one row
login_mask(r, username, password) ==
  r.username_lc = Lower(username) /\ r.user_password = password

\* the value verify_login returns: the first matching row, or None
login_result(username, password) ==
  LET row == Filter(load_users, LAMBDA r : login_mask(r, username, password)).rows
  IN IF row = <<>> THEN None ELSE Some(row[1])

verify_login(username, password) ==
  /\ cache' = Loaded({"users"})
  /\ last' = Call("verify_login", <<username, password>>,
                  login_result(username, password))
  /\ UNCHANGED <<callers, files, now, nextId>>

VerifyLogin == \E u \in LoginNames, p \in LoginPasswords : verify_login(u, p)

\* ---------------------------------------------------------------- posts
X280 == Rep("x", MaxContentLen)
X281 == Rep("x", MaxContentLen + 1)

PostContents == {S_NA, Blank, X280, X280 \o Blank, X281}

\* the row add_post builds from the stripped content
NewPost(author_id, content, retweet_of_post_id) ==
  [post_id |-> nextId, author_id |-> author_id, content |-> content,
   created_at |-> now,
   is_retweet |-> IF retweet_of_post_id # NoId THEN S_True ELSE S_False,
   retweet_of_post_id |-> retweet_of_post_id]

\* the length check with >= for >
too_long_at_limit(content) == Len(content) >= MaxContentLen

\* the length check of add_post
too_long(content) == Len(content) > MaxContentLen

add_post(author_id, raw, retweet_of_post_id) ==
  LET content == Strip(raw) IN
  IF content = EmptyStr /\ retweet_of_post_id = NoId THEN
    /\ last' = Call("add_post", <<author_id, raw, retweet_of_post_id>>,
                    Result(FALSE, MSG_NO_CONTENT))
    /\ UNCHANGED <<callers, files, cache, now, nextId>>
  ELSE IF too_long(content) THEN
    /\ last' = Call("add_post", <<author_id, raw, retweet_of_post_id>>,
                    Result(FALSE, MSG_CONTENT_TOO_LONG))
    /\ UNCHANGED <<callers, files, cache, now, nextId>>
  ELSE
    /\ nextId <= MaxIds /\ Len(posts.rows) < MaxPosts
    /\ posts' = append_row(posts, NewPost(author_id, content, retweet_of_post_id))
    /\ cache' = clear_data_caches
    /\ nextId' = nextId + 1
    /\ last' = Call("add_post", <<author_id, raw, retweet_of_post_id>>,
                    Result(TRUE, MSG_POSTED))
    /\ UNCHANGED <<callers, users, likes, comments, follows, reports, now>>

\* the compose box posts text without a source; the retweet button posts a
\* source without text
AddPost ==
  \E a \in ArgIds :
    \/ \E c \in PostContents : add_post(a, c, NoId)
    \/ \E rt \in ArgIds : add_post(a, EmptyStr, rt)

\* the mask of already_retweeted on one row
retweet_mask(r, target_post_id, user_id) ==
  /\ r.author_id = user_id
  /\ r.is_retweet = S_True
  /\ r.retweet_of_post_id = target_post_id

already_retweeted(target_post_id, user_id) ==
  IF load_posts.rows = <<>> THEN FALSE
  ELSE Len(Filter(load_posts,
                  LAMBDA r : retweet_mask(r, target_post_id, user_id)).rows) > 0

AlreadyRetweeted ==
  \E p \in ArgIds, u \in ArgIds :
    /\ cache' = Loaded({"posts"})
    /\ last' = Call("already_retweeted", <<p, u>>, already_retweeted(p, u))
    /\ UNCHANGED <<callers, files, now, nextId>>

\* ---------------------------------------------------------------- likes
\* the likes mask comparing the user column with the post id
like_mask_post_twice(r, post_id, user_id) ==
  r.post_id = post_id /\ r.user_id = post_id

like_mask(r, post_id, user_id) == r.post_id = post_id /\ r.user_id = user_id

has_liked(post_id, user_id) ==
  AnyRow(load_likes, LAMBDA r : like_mask(r, post_id, user_id))

\* like_count over a frame of likes
CountLikes(df, post_id) == Len(Filter(df, LAMBDA r : r.post_id = post_id).rows)

like_count(post_id) == CountLikes(load_likes, post_id)

NewLike(post_id, user_id, t) ==
  [post_id |-> post_id, user_id |-> user_id, created_at |-> t]

\* toggle_like that never removes
toggle_like_file_append_only(file, df, post_id, user_id, t) ==
  append_row(file, NewLike(post_id, user_id, t))

\* the likes file toggle_like leaves, given the file, the frame load_likes
\* returned and the time
toggle_like_file(file, df, post_id, user_id, t) ==
  IF AnyRow(df, LAMBDA r : like_mask(r, post_id, user_id))
  THEN overwrite_df(Filter(df, LAMBDA r : ~like_mask(r, post_id, user_id)))
  ELSE append_row(file, NewLike(post_id, user_id, t))

toggle_like(post_id, user_id) ==
  /\ has_liked(post_id, user_id) \/ Len(likes.rows) < MaxLikes
  /\ likes' = toggle_like_file(likes, load_likes, post_id, user_id, now)
  /\ cache' = clear_data_caches
  /\ last' = Call("toggle_like", <<post_id, user_id>>, Done)
  /\ UNCHANGED <<callers, users, posts, comments, follows, reports, now, nextId>>

ToggleLike == \E p \in ArgIds, u \in ArgIds : toggle_like(p, u)

LikeCount ==
  \E p \in ArgIds :
    /\ cache' = Loaded({"likes"})
    /\ last' = Call("like_count", <<p>>, like_count(p))
    /\ UNCHANGED <<callers, files, now, nextId>>

\* ------------------------------------------------------------- comments
CommentContents == {S_hi, S_NA, Blank, X281}

NewComment(post_id, author_id, content, parent_comment_id) ==
  [comment_id |-> nextId, post_id |-> post_id, author_id |-> author_id,
   content |-> content, created_at |-> now,
   parent_comment_id |-> parent_comment_id]

add_comment(post_id, author_id, raw, parent_comment_id) ==
  LET content == Strip(raw) IN
  IF content = EmptyStr THEN
    /\ last' = Call("add_comment", <<post_id, author_id, raw>>,
                    Result(FALSE, MSG_NO_COMMENT))
    /\ UNCHANGED <<callers, files, cache, now, nextId>>
  ELSE IF too_long(content) THEN
    /\ last' = Call("add_comment", <<post_id, author_id, raw>>,
                    Result(FALSE, MSG_COMMENT_TOO_LONG))
    /\ UNCHANGED <<callers, files, cache, now, nextId>>
  ELSE
    /\ nextId <= MaxIds /\ Len(comments.rows) < MaxComments
    /\ comments' = append_row(comments,
                     NewComment(post_id, author_id, content, parent_comment_id))
    /\ cache' = clear_data_caches
    /\ nextId' = nextId + 1
    /\ last' = Call("add_comment", <<post_id, author_id, raw>>,
                    Result(TRUE, MSG_COMMENTED))
    /\ UNCHANGED <<callers, users, posts, likes, follows, reports, now>>

AddComment ==
  \E p \in ArgIds, a \in ArgIds, c \in CommentContents : add_comment(p, a, c, NoId)

\* sort_values("created_at") on a frame of a few rows: rows with equal
\* timestamps keep their order
RECURSIVE InsertByTime(_, _)
InsertByTime(sorted, r) ==
  IF sorted = <<>> THEN <<r>>
  ELSE IF Head(sorted).created_at <= r.created_at
       THEN <<Head(sorted)>> \o InsertByTime(Tail(sorted), r)
       ELSE <<r>> \o sorted

RECURSIVE SortByTime(_)
SortByTime(rows) ==
  IF rows = <<>> THEN <<>>
  ELSE InsertByTime(SortByTime(SubSeq(rows, 1, Len(rows) - 1)), rows[Len(rows)])

comments_by_post(post_id) ==
  SortByTime(Filter(load_comments, LAMBDA r : r.post_id = post_id).rows)

CommentsByPost ==
  \E p \in ArgIds :
    /\ cache' = Loaded({"comments"})
    /\ last' = Call("comments_by_post", <<p>>, comments_by_post(p))
    /\ UNCHANGED <<callers, files, now, nextId>>

\* -------------------------------------------------------------- follows
follow_mask(r, follower_id, followee_id) ==
  r.follower_id = follower_id /\ r.followee_id = followee_id

is_following(follower_id, followee_id) ==
  IF follower_id = followee_id THEN TRUE
  ELSE AnyRow(load_follows, LAMBDA r : follow_mask(r, follower_id, followee_id))

IsFollowing ==
  \E a \in ArgIds, b \in ArgIds :
    /\ cache' = IF a = b THEN cache ELSE Loaded({"follows"})
    /\ last' = Call("is_following", <<a, b>>, is_following(a, b))
    /\ UNCHANGED <<callers, files, now, nextId>>

NewFollow(follower_id, followee_id, t) ==
  [follower_id |-> follower_id, followee_id |-> followee_id, created_at |-> t]

\* toggle_follow that never removes
toggle_follow_file_append_only(file, df, follower_id, followee_id, t) ==
  append_row(file, NewFollow(follower_id, followee_id, t))

\* the follows file toggle_follow leaves when follower and followee differ
toggle_follow_file(file, df, follower_id, followee_id, t) ==
  IF AnyRow(df, LAMBDA r : follow_mask(r, follower_id, followee_id))
  THEN overwrite_df(Filter(df, LAMBDA r : ~follow_mask(r, follower_id, followee_id)))
  ELSE append_row(file, NewFollow(follower_id, followee_id, t))

toggle_follow(follower_id, followee_id) ==
  IF follower_id = followee_id THEN
    /\ last' = Call("toggle_follow", <<follower_id, followee_id>>, Done)
    /\ UNCHANGED <<callers, files, cache, now, nextId>>
  ELSE
    /\ \/ AnyRow(load_follows, LAMBDA r : follow_mask(r, follower_id, followee_id))
       \/ Len(follows.rows) < MaxFollows
    /\ follows' = toggle_follow_file(follows, load_follows,
                                     follower_id, followee_id, now)
    /\ cache' = clear_data_caches
    /\ last' = Call("toggle_follow", <<follower_id, followee_id>>, Done)
    /\ UNCHANGED <<callers, users, posts, likes, comments, reports, now, nextId>>

ToggleFollow == \E a \in ArgIds, b \in ArgIds : toggle_follow(a, b)

\* -------------------------------------------------------------- profile
Bios == {S_hi}
Avatars == {S_al}

\* users.loc[mask, "bio"] = bio; users.loc[mask, "avatar_url"] = avatar_url
set_profile(df, user_id, bio, avatar_url) ==
  [columns |-> df.columns,
   rows |-> [i \in DOMAIN df.rows |->
               IF df.rows[i].user_id = user_id
               THEN [df.rows[i] EXCEPT !.bio = bio, !.avatar_url = avatar_url]
               ELSE df.rows[i]]]

update_profile(user_id, bio, avatar_url) ==
  IF ~AnyRow(load_users, LAMBDA r : r.user_id = user_id) THEN
    /\ cache' = Loaded({"users"})
    /\ last' = Call("update_profile", <<user_id, bio, avatar_url>>, Done)
    /\ UNCHANGED <<callers, files, now, nextId>>
  ELSE
    /\ users' = overwrite_df(set_profile(load_users, user_id, bio, avatar_url))
    /\ cache' = clear_data_caches
    /\ last' = Call("update_profile", <<user_id, bio, avatar_url>>, Done)
    /\ UNCHANGED <<callers, posts, likes, comments, follows, reports, now, nextId>>

UpdateProfile ==
  \E u \in ArgIds, b \in Bios, a \in Avatars : update_profile(u, b, a)

\* -------------------------------------------------------------- reports
TargetTypes == {S_Post, S_comment, S_user}
Reasons == {S_hi, Blank}

NewReport(target_type, target_id, reporter_id, reason) ==
  [report_id |-> nextId, target_type |-> target_type, target_id |-> target_id,
   reporter_id |-> reporter_id, reason |-> reason, created_at |-> now,
   resolved |-> S_False]

known_target_any_text(target_type) == target_type # EmptyStr

\* the target types add_report accepts
known_target(target_type) == target_type \in {S_post, S_comment}

add_report(raw_type, target_id, reporter_id, raw_reason) ==
  LET target_type == Lower(raw_type)
      reason == Strip(raw_reason) IN
  IF ~known_target(target_type) THEN
    /\ last' = Call("add_report", <<raw_type, target_id, reporter_id, raw_reason>>,
                    Result(FALSE, MSG_BAD_TARGET))
    /\ UNCHANGED <<callers, files, cache, now, nextId>>
  ELSE IF reason = EmptyStr THEN
    /\ last' = Call("add_report", <<raw_type, target_id, reporter_id, raw_reason>>,
                    Result(FALSE, MSG_NO_REASON))
    /\ UNCHANGED <<callers, files, cache, now, nextId>>
  ELSE
    /\ nextId <= MaxIds /\ Len(reports.rows) < MaxReports
    /\ reports' = append_row(reports,
                    NewReport(target_type, target_id, reporter_id, reason))
    /\ cache' = clear_data_caches
    /\ nextId' = nextId + 1
    /\ last' = Call("add_report", <<raw_type, target_id, reporter_id, raw_reason>>,
                    Result(TRUE, MSG_REPORTED))
    /\ UNCHANGED <<callers, users, posts, likes, comments, follows, now>>

AddReport ==
  \E ty \in TargetTypes, t \in ArgIds, u \in ArgIds, r \in Reasons :
    add_report(ty, t, u, r)

\* sort_values("created_at", ascending=False) on a frame of a few rows: rows
\* with equal timestamps keep their order
RECURSIVE InsertByTimeDesc(_, _)
InsertByTimeDesc(sorted, r) ==
  IF sorted = <<>> THEN <<r>>
  ELSE IF Head(sorted).created_at >= r.created_at
       THEN <<Head(sorted)>> \o InsertByTimeDesc(Tail(sorted), r)
       ELSE <<r>> \o sorted

RECURSIVE SortByTimeDesc(_)
SortByTimeDesc(rows) ==
  IF rows = <<>> THEN <<>>
  ELSE InsertByTimeDesc(SortByTimeDesc(SubSeq(rows, 1, Len(rows) - 1)),
                        rows[Len(rows)])

\* list_reports: the open reports (or all of them), newest first
list_reports(only_open) ==
  LET r == IF only_open
           THEN Filter(load_reports, LAMBDA x : Lower(x.resolved) # S_true)
           ELSE load_reports
  IN SortByTimeDesc(r.rows)

ListReports ==
  \E only_open \in BOOLEAN :
    /\ cache' = Loaded({"reports"})
    /\ last' = Call("list_reports", <<only_open>>, list_reports(only_open))
    /\ UNCHANGED <<callers, files, now, nextId>>

\* r.loc[mask, "resolved"] = "True"
\* resolve_report that marks every report
set_resolved_all(df, report_id) ==
  [columns |-> df.columns,
   rows |-> [i \in DOMAIN df.rows |-> [df.rows[i] EXCEPT !.resolved = S_True]]]

set_resolved(df, report_id) ==
  [columns |-> df.columns,
   rows |-> [i \in DOMAIN df.rows |->
               IF df.rows[i].report_id = report_id
               THEN [df.rows[i] EXCEPT !.resolved = S_True]
               ELSE df.rows[i]]]

resolve_report(report_id) ==
  IF AnyRow(load_reports, LAMBDA r : r.report_id = report_id) THEN
    /\ reports' = overwrite_df(set_resolved(load_reports, report_id))
    /\ cache' = clear_data_caches
    /\ last' = Call("resolve_report", <<report_id>>, Done)
    /\ UNCHANGED <<callers, users, posts, likes, comments, follows, now, nextId>>
  ELSE
    /\ cache' = Loaded({"reports"})
    /\ last' = Call("resolve_report", <<report_id>>, Done)
    /\ UNCHANGED <<callers, files, now, nextId>>

ResolveReport == \E r \in ArgIds : resolve_report(r)

\* ------------------------------------------------------------ deletion
\* the three files delete_post leaves
delete_post_posts(df, post_id) ==
  overwrite_df(Filter(df, LAMBDA r : r.post_id # post_id))

\* delete_post that writes the likes back unfiltered
delete_post_likes_unfiltered(df, post_id) == overwrite_df(df)

delete_post_likes(df, post_id) ==
  overwrite_df(Filter(df, LAMBDA r : r.post_id # post_id))

delete_post_comments(file, post_id) ==
  overwrite_df(Filter(ReadCsv(file), LAMBDA r : r.post_id # post_id))

delete_post(post_id) ==
  /\ posts' = delete_post_posts(load_posts, post_id)
  /\ likes' = delete_post_likes(load_likes, post_id)
  /\ comments' = delete_post_comments(comments, post_id)
  /\ cache' = clear_data_caches
  /\ last' = Call("delete_post", <<post_id>>, Done)
  /\ UNCHANGED <<callers, users, follows, reports, now, nextId>>

DeletePost == \E p \in ArgIds : delete_post(p)

delete_comment_file(file, comment_id) ==
  overwrite_df(Filter(ReadCsv(file), LAMBDA r : r.comment_id # comment_id))

delete_comment(comment_id) ==
  /\ comments' = delete_comment_file(comments, comment_id)
  /\ cache' = clear_data_caches
  /\ last' = Call("delete_comment", <<comment_id>>, Done)
  /\ UNCHANGED <<callers, users, posts, likes, follows, reports, now, nextId>>

DeleteComment == \E c \in ArgIds : delete_comment(c)

\* --------------------------------------------------- hashtags and search
\* the characters \w matches, within the alphabet of the model
WordChars ==
  {UpperChars[i] : i \in DOMAIN UpperChars}
    \cup {LowerChars[i] : i \in DOMAIN LowerChars}
    \cup {"0", "1", "2", "3", "4", "5", "6", "7", "8", "9", "_"}

\* the longest prefix of s made of word characters
RECURSIVE WordPrefix(_)
WordPrefix(s) ==
  IF s # <<>> /\ Head(s) \in WordChars
  THEN <<Head(s)>> \o WordPrefix(Tail(s)) ELSE <<>>

\* HASHTAG_RE.findall(text): the words that follow a "#", left to right
RECURSIVE HashtagMatches(_)
HashtagMatches(text) ==
  IF text = <<>> THEN <<>>
  ELSE IF Head(text) = "#" /\ WordPrefix(Tail(text)) # <<>>
       THEN LET word == WordPrefix(Tail(text)) IN
            <<word>> \o HashtagMatches(SubSeq(text, Len(word) + 2, Len(text)))
       ELSE HashtagMatches(Tail(text))

extract_hashtags(text) ==
  IF text = EmptyStr THEN <<>>
  ELSE LET m == HashtagMatches(text) IN [i \in DOMAIN m |-> Lower(m[i])]

StartsWith(s, c) == s # <<>> /\ s[1] = c

\* Series.str.contains(pat) compiles pat as a regular expression and keeps
\* the cells re.search finds a match in.  The patterns of the model are built
\* from literal characters, ".", "^", "$", "|", groups "( )" and the
\* repeats "*", "+", "?" with their lazy forms; classes, counted repeats,
\* escapes, group extensions "(?" and possessive repeats are not modelled.
Quantifiers == {"*", "+", "?"}

RxModelled(p) ==
  /\ \A k \in DOMAIN p : p[k] \notin {"[", "]", "{", "}", "\\"}
  /\ \A k \in DOMAIN p :
       k > 1 => /\ ~(p[k - 1] = "(" /\ p[k] = "?")
                /\ ~(p[k - 1] \in Quantifiers /\ p[k] = "+")

\* the parentheses of p[k..] close the d groups that are open, and no more
RECURSIVE RxBalanced(_, _, _)
RxBalanced(p, k, d) ==
  IF k > Len(p) THEN d = 0
  ELSE IF p[k] = "(" THEN RxBalanced(p, k + 1, d + 1)
  ELSE IF p[k] = ")" THEN d > 0 /\ RxBalanced(p, k + 1, d - 1)
  ELSE RxBalanced(p, k + 1, d)

\* p[k] is a repeat, or the "?" that makes the repeat before it lazy
RECURSIVE RxIsRepeat(_, _)
RxIsLazy(p, k) == p[k] = "?" /\ k > 1 /\ RxIsRepeat(p, k - 1)
RxIsRepeat(p, k) == p[k] \in Quantifiers /\ ~RxIsLazy(p, k)

\* re.compile(p) raises re.error: unbalanced parentheses, nothing to repeat,
\* multiple repeat
RxError(p) ==
  \/ ~RxBalanced(p, 1, 0)
  \/ \E k \in DOMAIN p :
       /\ RxIsRepeat(p, k)
       /\ \/ k = 1
          \/ p[k - 1] \in {"(", "|", "^", "$"}
          \/ RxIsRepeat(p, k - 1)
          \/ RxIsLazy(p, k - 1)

\* the index of the ")" that closes the group open at depth d before p[k]
RECURSIVE RxClose(_, _, _)
RxClose(p, k, d) ==
  IF k > Len(p) THEN 0
  ELSE IF p[k] = "(" THEN RxClose(p, k + 1, d + 1)
  ELSE IF p[k] = ")" THEN (IF d = 1 THEN k ELSE RxClose(p, k + 1, d - 1))
  ELSE RxClose(p, k + 1, d)

\* the index of the first "|" of p[i..j] outside every group, or 0
RECURSIVE RxBar(_, _, _)
RxBar(p, i, j) ==
  IF i > j THEN 0
  ELSE IF p[i] = "|" THEN i
  ELSE IF p[i] = "(" THEN RxBar(p, RxClose(p, i + 1, 1) + 1, j)
  ELSE RxBar(p, i + 1, j)

\* The positions of text t at which a match of a part of the pattern can
\* end when it starts at one of the positions S (0 is before the first
\* character): RxEnds for alternatives p[i..j], RxSeq for one alternative,
\* RxAtom for the atom p[i..a], RxStar for any number of that atom.
RECURSIVE RxEnds(_, _, _, _, _)
RECURSIVE RxSeq(_, _, _, _, _)
RECURSIVE RxAtom(_, _, _, _, _)
RECURSIVE RxStar(_, _, _, _, _)

RxAtom(p, i, a, t, S) ==
  IF p[i] = "(" THEN RxEnds(p, i + 1, a - 1, t, S)
  ELSE IF p[i] = "^" THEN S \cap {0}
  ELSE IF p[i] = "$"
  THEN {e \in S : e = Len(t) \/ (e = Len(t) - 1 /\ t[Len(t)] = "\n")}
  ELSE {e + 1 : e \in {x \in S : /\ x < Len(t)
                                 /\ IF p[i] = "." THEN t[x + 1] # "\n"
                                    ELSE t[x + 1] = p[i]}}

RxStar(p, i, a, t, S) ==
  LET more == S \cup RxAtom(p, i, a, t, S) IN
  IF more = S THEN S ELSE RxStar(p, i, a, t, more)

RxSeq(p, i, j, t, S) ==
  IF i > j THEN S
  ELSE
    LET a == IF p[i] = "(" THEN RxClose(p, i + 1, 1) ELSE i
        q == IF a < j /\ p[a + 1] \in Quantifiers THEN p[a + 1] ELSE ""
        lazy == q # "" /\ a + 1 < j /\ p[a + 2] = "?"
        next == a + 1 + (IF q # "" THEN 1 ELSE 0) + (IF lazy THEN 1 ELSE 0)
        ends == CASE q = "" -> RxAtom(p, i, a, t, S)
                  [] q = "?" -> S \cup RxAtom(p, i, a, t, S)
                  [] q = "*" -> RxStar(p, i, a, t, S)
                  [] q = "+" -> RxStar(p, i, a, t, RxAtom(p, i, a, t, S))
    IN RxSeq(p, next, j, t, ends)

RxEnds(p, i, j, t, S) ==
  LET b == RxBar(p, i, j) IN
  IF b = 0 THEN RxSeq(p, i, j, t, S)
  ELSE RxSeq(p, i, b - 1, t, S) \cup RxEnds(p, b + 1, j, t, S)

\* re.search(pat, s) is not None, for a pattern re.compile accepts
Contains(s, pat) == RxEnds(pat, 1, Len(pat), s, 0..Len(s)) # {}

\* the text search of filter_posts_by_query raises re.error
search_raises(query) ==
  /\ query # EmptyStr
  /\ ~StartsWith(Strip(query), "@")
  /\ ~StartsWith(Strip(query), "#")
  /\ RxError(Lower(Strip(query)))

filter_posts_by_query(df_posts, query) ==
  IF query = EmptyStr THEN df_posts
  ELSE
    LET q == Strip(query) IN
    IF StartsWith(q, "@") THEN
      LET uname == Lower(Tail(q))
          users_rows == load_users.rows
          author_ids == {users_rows[i].user_id :
                           i \in {j \in DOMAIN users_rows :
                                    users_rows[j].username_lc = uname}}
      IN Filter(df_posts, LAMBDA r : r.author_id \in author_ids)
    ELSE IF StartsWith(q, "#") THEN
      LET tag == Lower(Tail(q)) IN
      Filter(df_posts,
             LAMBDA r : \E i \in DOMAIN extract_hashtags(r.content) :
                          extract_hashtags(r.content)[i] = tag)
    ELSE
      Filter(df_posts, LAMBDA r : Contains(Lower(r.content), Lower(q)))

\* the search box of the feed, on the posts load_posts returns
S_at_al == <<"@", "a", "l">>
S_at_NaN == <<"@", "N", "a", "N">>
S_tag_a == <<"#", "a">>
S_tag_A_sp == <<"#", "A", " ">>
S_b == <<"b">>
S_dot == <<".">>
S_open == <<"(">>
Queries == {EmptyStr, Blank, S_at_al, S_at_NaN, S_tag_a, S_tag_A_sp, S_b,
            S_dot, S_open}

\* sort_values("_created_at_dt", ascending=False) on a frame of a few rows:
\* rows with equal timestamps keep their order, rows without one come last
RECURSIVE InsertByDtDesc(_, _)
InsertByDtDesc(sorted, r) ==
  IF sorted = <<>> THEN <<r>>
  ELSE IF Head(sorted)[DT_COLUMN] >= r[DT_COLUMN]
       THEN <<Head(sorted)>> \o InsertByDtDesc(Tail(sorted), r)
       ELSE <<r>> \o sorted

RECURSIVE SortByDtDesc(_)
SortByDtDesc(rows) ==
  IF rows = <<>> THEN <<>>
  ELSE InsertByDtDesc(SortByDtDesc(SubSeq(rows, 1, Len(rows) - 1)),
                      rows[Len(rows)])

\* followee_ids: the users user_id follows, and user_id
followee_ids(user_id) ==
  LET f == load_follows.rows IN
  {f[i].followee_id : i \in {j \in DOMAIN f : f[j].follower_id = user_id}}
    \cup {user_id}

\* show_feed up to the search: the frame filter_posts_by_query is given
feed_frame(current_user, mode) ==
  LET posts_all == load_posts
      sorted == [columns |-> posts_all.columns,
                 rows |-> SortByDtDesc(posts_all.rows)] IN
  IF mode = MODE_FOLLOWING /\ current_user.found
  THEN LET ids == followee_ids(current_user.row.user_id) IN
       Filter(sorted, LAMBDA r : r.author_id \in ids)
  ELSE sorted

\* show_feed: the rows of the post cards it renders (none when there is no
\* post, and none when the search raises)
show_feed(current_user, query, page, mode) ==
  IF load_posts.rows = <<>> \/ search_raises(query) THEN <<>>
  ELSE
    LET found == filter_posts_by_query(feed_frame(current_user, mode), query).rows
        start == page * PAGE_SIZE
        end == IF start + PAGE_SIZE < Len(found) THEN start + PAGE_SIZE
               ELSE Len(found)
    IN SubSeq(found, start + 1, end)

\* a script run of a logged-out session with a query in the search box:
\* show_feed returns before the search when there is no post
FilterPosts ==
  \E query \in Queries :
    IF load_posts.rows = <<>> THEN
      /\ cache' = Loaded({"posts"})
      /\ last' = Call("show_feed", <<query>>, <<>>)
      /\ UNCHANGED <<callers, files, now, nextId>>
    ELSE
      /\ cache' = Loaded(IF query = EmptyStr THEN {"posts"}
                         ELSE {"posts", "users"})
      /\ last' = Call("filter_posts_by_query", <<query>>,
                      IF search_raises(query) THEN Raised
                      ELSE filter_posts_by_query(feed_frame(None, MODE_ALL),
                                                 query).rows)
      /\ UNCHANGED <<callers, files, now, nextId>>

\* every hashtag of every row, in row order
RECURSIVE AllTags(_)
AllTags(rows) ==
  IF rows = <<>> THEN <<>>
  ELSE extract_hashtags(Head(rows).content) \o AllTags(Tail(rows))

\* the keys of Counter(tags): the distinct tags in first-seen order
RECURSIVE CounterKeys(_)
CounterKeys(tags) ==
  IF tags = <<>> THEN <<>>
  ELSE LET before == CounterKeys(SubSeq(tags, 1, Len(tags) - 1))
           t == tags[Len(tags)]
       IN IF \E i \in DOMAIN before : before[i] = t THEN before
          ELSE Append(before, t)

\* a counter that lists the tag seen last first
CounterItemsLastSeenFirst(tags) ==
  LET keys == CounterKeys(tags)
      n == Len(keys) IN
  [i \in DOMAIN keys |->
     <<keys[n + 1 - i],
       Cardinality({j \in DOMAIN tags : tags[j] = keys[n + 1 - i]})>>]

\* Counter(tags).items()
CounterItems(tags) ==
  LET keys == CounterKeys(tags) IN
  [i \in DOMAIN keys |->
     <<keys[i], Cardinality({j \in DOMAIN tags : tags[j] = keys[i]})>>]

\* one step of the sort of most_common: by decreasing count, items of equal
\* count in the order they had
RECURSIVE InsertByCount(_, _)
InsertByCount(sorted, item) ==
  IF sorted = <<>> THEN <<item>>
  ELSE IF Head(sorted)[2] >= item[2]
       THEN <<Head(sorted)>> \o InsertByCount(Tail(sorted), item)
       ELSE <<item>> \o sorted

RECURSIVE SortByCount(_)
SortByCount(items) ==
  IF items = <<>> THEN <<>>
  ELSE InsertByCount(SortByCount(SubSeq(items, 1, Len(items) - 1)),
                     items[Len(items)])

\* Counter.most_common(n)
most_common(tags, n) ==
  LET sorted == SortByCount(CounterItems(tags)) IN
  SubSeq(sorted, 1, IF n < Len(sorted) THEN n ELSE Len(sorted))

trending_hashtags(df_posts, topk) == most_common(AllTags(df_posts.rows), topk)

\* trending_hashtags on the posts load_posts returns: the call of the
\* sidebar, and calls with a smaller topk
Trending ==
  \E topk \in (0..MaxTopK) \cup {TRENDING_TOPK} :
    /\ cache' = Loaded({"posts"})
    /\ last' = Call("trending_hashtags", <<topk>>,
                    trending_hashtags(load_posts, topk))
    /\ UNCHANGED <<callers, files, now, nextId>>

\* ------------------------------------------------------ user interface
\* is_admin: the admin flag of a session user, compared in lower case
is_admin(user) == user.found /\ Lower(user.row.is_admin) = S_true

\* the delete button that is shown to every logged-in user
can_delete_any_user(current_user, post) == current_user.found

\* render_post_card shows the delete button of a post to its author and to
\* administrators
can_delete(current_user, post) ==
  /\ current_user.found
  /\ \/ current_user.row.user_id = post.author_id
     \/ is_admin(current_user)

\* A deployment whose users.csv was provisioned with an administrator and two
\* members: the application itself never sets the admin flag.
S_root == <<"r", "o", "o", "t">>
S_bo == <<"b", "o">>
AdminId == 100
AlId == 101
BoId == 102

Provisioned(user_id, username, admin) ==
  [user_id |-> user_id, user_password |-> S_pw, username |-> username,
   username_lc |-> Lower(username), created_at |-> 0, bio |-> EmptyStr,
   avatar_url |-> EmptyStr, is_admin |-> admin]

InitUI ==
  /\ users = [columns |-> USERS_COLUMNS,
              rows |-> <<Provisioned(AdminId, S_root, S_True),
                         Provisioned(AlId, S_al, S_False),
                         Provisioned(BoId, S_bo, S_False)>>]
  /\ posts = EmptyCsv(POSTS_COLUMNS)
  /\ likes = EmptyCsv(LIKES_COLUMNS)
  /\ comments = EmptyCsv(COMMENTS_COLUMNS)
  /\ follows = EmptyCsv(FOLLOWS_COLUMNS)
  /\ reports = EmptyCsv(REPORTS_COLUMNS)
  /\ cache = [t \in Tables |-> NoEntry]
  /\ now = 0
  /\ nextId = 1
  /\ last = [op |-> "bootstrap"]
  /\ session = None
  /\ writers = [w \in Writers |-> Idle]
  /\ round = NewRound(1)

UiNames == {S_root, S_al, S_bo}
UiPasswords == {S_pw, S_PW}

\* the login form: the session takes the row verify_login returns
\* the login form storing the first user row when verify_login returns None
UiLogin_first_row_on_failure ==
  /\ ~session.found
  /\ \E u \in UiNames, p \in UiPasswords :
       LET user == login_result(u, p) IN
       /\ cache' = Loaded({"users"})
       /\ last' = Call("verify_login", <<u, p>>, user)
       /\ session' = IF user.found THEN user
                     ELSE IF load_users.rows # <<>>
                          THEN Some(load_users.rows[1])
                          ELSE session
       /\ UNCHANGED <<writers, round, files, now, nextId>>

UiLogin ==
  /\ ~session.found
  /\ \E u \in UiNames, p \in UiPasswords :
       LET user == login_result(u, p) IN
       /\ cache' = Loaded({"users"})
       /\ last' = Call("verify_login", <<u, p>>, user)
       /\ session' = IF user.found THEN user ELSE session
       /\ UNCHANGED <<writers, round, files, now, nextId>>

\* the logout button
UiLogout ==
  /\ session.found
  /\ session' = None
  /\ UNCHANGED <<writers, round, files, cache, now, nextId, last>>

\* the compose box of a logged-in user
UiCompose ==
  /\ session.found
  /\ add_post(session.row.user_id, S_hi, NoId)

\* what the search box and the feed-mode radio of the sidebar hold
FeedViews == {[query |-> EmptyStr, mode |-> MODE_ALL],
              [query |-> S_at_al, mode |-> MODE_FOLLOWING]}

\* the posts the feed renders on its first page
FeedPosts(view) == show_feed(session, view.query, 0, view.mode)

\* the post cards on the page, for what the sidebar may hold
PostCards ==
  UNION {LET feed == FeedPosts(view) IN {feed[i] : i \in DOMAIN feed} :
           view \in FeedViews}

\* the retweet button of a post card, disabled once the user has retweeted
UiRetweet ==
  /\ session.found
  /\ \E post \in PostCards :
       /\ ~already_retweeted(post.post_id, session.row.user_id)
       /\ add_post(session.row.user_id, EmptyStr, post.post_id)

\* the report popover of a post card
UiReportPost ==
  /\ session.found
  /\ \E post \in PostCards :
       add_report(S_post, post.post_id, session.row.user_id, S_hi)

\* the delete button of a post card
UiDeletePost ==
  \E post \in PostCards :
    /\ can_delete(session, post)
    /\ delete_post(post.post_id)

\* the moderation panel: delete the reported post, then resolve the report
ModDeletePost ==
  /\ is_admin(session)
  /\ \E i \in DOMAIN list_reports(TRUE) :
       LET r == list_reports(TRUE)[i] IN
       /\ r.target_type = S_post
       /\ posts' = delete_post_posts(load_posts, r.target_id)
       /\ likes' = delete_post_likes(load_likes, r.target_id)
       /\ comments' = delete_post_comments(comments, r.target_id)
       /\ reports' = overwrite_df(set_resolved(ReadCsv(reports), r.report_id))
       /\ cache' = clear_data_caches
       /\ last' = Call("resolve_report", <<r.report_id>>, Done)
       /\ UNCHANGED <<callers, users, follows, now, nextId>>

\* the moderation panel: resolve the report only
ModResolve ==
  /\ is_admin(session)
  /\ \E i \in DOMAIN list_reports(TRUE) :
       resolve_report(list_reports(TRUE)[i].report_id)

\* the sign-up form, shown with the login form to a logged-out session
UiSignup ==
  /\ ~session.found
  /\ \E u \in {S_al, S_bo}, p \in {S_pw, EmptyStr} : create_user(u, p)

\* the like button of a post card
UiLike ==
  /\ session.found
  /\ \E post \in PostCards :
       toggle_like(post.post_id, session.row.user_id)

\* the follow button of a post card of another author
UiFollow ==
  /\ session.found
  /\ \E post \in PostCards :
       /\ session.row.user_id # post.author_id
       /\ toggle_follow(session.row.user_id, post.author_id)

\* the comment form of a post card
UiComment ==
  /\ session.found
  /\ \E post \in PostCards :
       add_comment(post.post_id, session.row.user_id, S_hi, NoId)

\* the profile form of the sidebar
UiProfile ==
  /\ session.found
  /\ update_profile(session.row.user_id, S_hi, EmptyStr)

\* ------------------------------------------------- data files at startup
\* a path at which no file exists
NoFile == [missing |-> TRUE]

\* the columns that hold a timestamp
TimeColumns == {"created_at", DT_COLUMN}

\* the empty string in a cell of column c
MissingCell(c) ==
  IF c \in TextColumns THEN EmptyStr
  ELSE IF c \in TimeColumns THEN NoDt
  ELSE NoId

\* ensure_csv: a missing file is created with the header and no rows
ensure_csv(file, columns) ==
  IF file = NoFile THEN EmptyCsv(columns) ELSE file

\* the required columns a frame lacks, in schema order
MissingColumns(df, required_cols) ==
  SelectSeq(required_cols, LAMBDA c : c \notin ColumnSet(df))

\* the columns of a frame outside the schema, in file order
ExtraColumns(df, required_cols) ==
  SelectSeq(df.columns,
            LAMBDA c : \A i \in DOMAIN required_cols : required_cols[i] # c)

\* upgrade_csv_schema: the file after the call
upgrade_csv_schema(file, required_cols) ==
  IF file = NoFile THEN file
  ELSE
    LET df == ReadCsv(file)
        added == MissingColumns(df, required_cols)
        widened == df.columns \o added
        ordered == required_cols \o ExtraColumns(df, required_cols)
        changed == added # <<>> \/ widened # ordered
    IN IF changed
       THEN [columns |-> ordered,
             rows |-> [i \in DOMAIN df.rows |->
                         [c \in {ordered[k] : k \in DOMAIN ordered} |->
                            IF c \in DOMAIN df.rows[i] THEN df.rows[i][c]
                            ELSE MissingCell(c)]]]
       ELSE file

\* one file through bootstrap_data_files
bootstrap_file(file, columns) ==
  upgrade_csv_schema(ensure_csv(file, columns), columns)

\* bootstrap_data_files, the first statement of every script run
bootstrap_data_files ==
  /\ users' = bootstrap_file(users, USERS_COLUMNS)
  /\ posts' = bootstrap_file(posts, POSTS_COLUMNS)
  /\ likes' = bootstrap_file(likes, LIKES_COLUMNS)
  /\ comments' = bootstrap_file(comments, COMMENTS_COLUMNS)
  /\ follows' = bootstrap_file(follows, FOLLOWS_COLUMNS)
  /\ reports' = bootstrap_file(reports, REPORTS_COLUMNS)
  /\ last' = Call("bootstrap_data_files", <<>>, Done)
  /\ UNCHANGED <<callers, cache, now, nextId>>

\* headers an earlier release or a hand edit left behind: the users schema
\* before profiles and roles, the same with the columns in another order and
\* a column the schema does not know, and the posts schema before retweets
LEGACY_COLUMN == "followers_count"
LEGACY_USERS_COLUMNS == <<"user_id", "user_password", "username",
                          "username_lc", "created_at">>
EDITED_USERS_COLUMNS == <<"username", LEGACY_COLUMN, "user_id",
                          "user_password", "username_lc", "created_at">>
LEGACY_POSTS_COLUMNS == <<"post_id", "author_id", "content", "created_at">>
KEPT_POSTS_COLUMNS == Append(POSTS_COLUMNS, DT_COLUMN)

\* a user row of a data directory found at startup, under a given header
FoundUser(columns, username) ==
  Cells([user_id |-> AlId, user_password |-> S_pw, username |-> username,
         username_lc |-> Lower(username), created_at |-> 0, bio |-> EmptyStr,
         avatar_url |-> EmptyStr, is_admin |-> S_False,
         followers_count |-> 7], columns)

\* a post row of a data directory found at startup, under a given header
FoundPost(columns, content) ==
  Cells([post_id |-> BoId, author_id |-> AlId, content |-> content,
         created_at |-> 0, is_retweet |-> S_False,
         retweet_of_post_id |-> NoId, _created_at_dt |-> 0], columns)

FoundNames == {S_al, S_NaN}
FoundContents == {S_hi, S_NA}

\* the users.csv a script run may find
FoundUsersFiles ==
  {NoFile, EmptyCsv(USERS_COLUMNS), EmptyCsv(LEGACY_USERS_COLUMNS)}
  \cup {[columns |-> h, rows |-> <<FoundUser(h, u)>>] :
          h \in {USERS_COLUMNS, LEGACY_USERS_COLUMNS, EDITED_USERS_COLUMNS},
          u \in FoundNames}

\* the posts.csv a script run may find
FoundPostsFiles ==
  {NoFile, EmptyCsv(POSTS_COLUMNS)}
  \cup {[columns |-> h, rows |-> <<FoundPost(h, c)>>] :
          h \in {LEGACY_POSTS_COLUMNS, KEPT_POSTS_COLUMNS},
          c \in FoundContents}

\* a data directory before the first script run of a process
InitFound ==
  /\ users \in FoundUsersFiles
  /\ posts \in FoundPostsFiles
  /\ likes \in {NoFile, EmptyCsv(LIKES_COLUMNS)}
  /\ comments \in {NoFile, EmptyCsv(COMMENTS_COLUMNS)}
  /\ follows \in {NoFile, EmptyCsv(FOLLOWS_COLUMNS)}
  /\ reports \in {NoFile, EmptyCsv(REPORTS_COLUMNS)}
  /\ cache = [t \in Tables |-> NoEntry]
  /\ now = 0
  /\ nextId = 1
  /\ last = [op |-> "start"]
  /\ session = None
  /\ writers = [w \in Writers |-> Idle]
  /\ round = NewRound(1)

\* the sign-up form, in a script run that has passed bootstrap
BootSignup ==
  /\ last.op # "start"
  /\ \E u \in {S_Al, S_NaN} : create_user(u, S_pw)

\* ------------------------------------------------- concurrent mutators
\* Two script runs of the same server process share the files and the
\* st.cache_data cache. Each mutator is a load step, one or more write steps
\* and the six clears of clear_data_caches, and the steps of the two runs
\* interleave.
Other(w) == 3 - w

Busy(w) == writers[w].pc \notin {"idle", "done"}

\* the table a write step writes
WrittenTable(pc) ==
  CASE pc = "like_write" -> "likes"
    [] pc = "follow_write" -> "follows"
    [] pc = "del_write_posts" -> "posts"
    [] pc = "del_write_likes" -> "likes"
    [] pc = "del_write_comments" -> "comments"

\* a write step that reads the file again instead of using its loaded frame
held_frame_reread(w) == ReadTable(WrittenTable(writers[w].pc))

\* the local frame a write step works on: the one its load step returned
held_frame(w) == writers[w].df

\* the overwrite of a held frame drops a row a fresh read would have kept
Erases(fresh, held) ==
  \E i \in DOMAIN fresh.rows :
    \A j \in DOMAIN held.rows : held.rows[j] # fresh.rows[i]

\* w enters a mutator and runs its first load
Enter(w, op, a, b, t, pc) ==
  /\ writers[w].pc = "idle"
  /\ writers' = [writers EXCEPT ![w] =
                   [pc |-> pc, op |-> op, a |-> a, b |-> b, df |-> Load(t)]]
  /\ cache' = Loaded({t})
  /\ round' = [round EXCEPT
                 !.overlap = @ \/ Busy(Other(w)),
                 !.together = @ \/ /\ writers[Other(w)].pc = pc
                                   /\ pc \in {"like_write", "follow_write"}
                                   /\ writers[Other(w)].a = a
                                   /\ writers[Other(w)].b = b]
  /\ UNCHANGED <<session, files, now, nextId, last>>

\* w moves on after a step that wrote no file
Step(w, pc, df) ==
  writers' = [writers EXCEPT ![w] = [@ EXCEPT !.pc = pc, !.df = df]]

\* toggle_like: likes = load_likes()
LikeLoad == \E w \in Writers, p \in ArgIds : Enter(w, "toggle_like", p, 1, "likes", "like_write")

\* toggle_like: overwrite_df(likes[~mask]) or append_row(new_row)
LikeWrite ==
  \E w \in Writers :
    LET df == held_frame(w)
        p == writers[w].a
        u == writers[w].b
        removes == AnyRow(df, LAMBDA r : like_mask(r, p, u))
    IN
    /\ writers[w].pc = "like_write"
    /\ removes \/ Len(likes.rows) < MaxLikes
    /\ likes' = toggle_like_file(likes, df, p, u, now)
    /\ round' = [round EXCEPT !.erased = @ \/
                   /\ removes
                   /\ Erases(Filter(ReadCsv(likes), LAMBDA r : ~like_mask(r, p, u)),
                             Filter(df, LAMBDA r : ~like_mask(r, p, u)))]
    /\ Step(w, "clear", df)
    /\ UNCHANGED <<session, users, posts, comments, follows, reports,
                   cache, now, nextId, last>>

\* toggle_follow: f = load_follows()
FollowLoad ==
  \E w \in Writers, b \in ArgIds \ {1} :
    Enter(w, "toggle_follow", 1, b, "follows", "follow_write")

\* toggle_follow: overwrite_df(f[~mask]) or append_row(row)
FollowWrite ==
  \E w \in Writers :
    LET df == held_frame(w)
        a == writers[w].a
        b == writers[w].b
        removes == AnyRow(df, LAMBDA r : follow_mask(r, a, b))
    IN
    /\ writers[w].pc = "follow_write"
    /\ removes \/ Len(follows.rows) < MaxFollows
    /\ follows' = toggle_follow_file(follows, df, a, b, now)
    /\ round' = [round EXCEPT !.erased = @ \/
                   /\ removes
                   /\ Erases(Filter(ReadCsv(follows), LAMBDA r : ~follow_mask(r, a, b)),
                             Filter(df, LAMBDA r : ~follow_mask(r, a, b)))]
    /\ Step(w, "clear", df)
    /\ UNCHANGED <<session, users, posts, likes, comments, reports,
                   cache, now, nextId, last>>

\* delete_post: posts = load_posts()
DelLoadPosts ==
  \E w \in Writers, p \in ArgIds :
    Enter(w, "delete_post", p, NoId, "posts", "del_write_posts")

\* delete_post: overwrite_df(posts[posts.post_id != post_id])
DelWritePosts ==
  \E w \in Writers :
    LET df == held_frame(w)
        p == writers[w].a IN
    /\ writers[w].pc = "del_write_posts"
    /\ posts' = delete_post_posts(df, p)
    /\ round' = [round EXCEPT !.erased = @ \/
                   Erases(Filter(ReadPosts(posts), LAMBDA r : r.post_id # p),
                          Filter(df, LAMBDA r : r.post_id # p))]
    /\ Step(w, "del_load_likes", df)
    /\ UNCHANGED <<session, users, likes, comments, follows, reports,
                   cache, now, nextId, last>>

\* delete_post: likes = load_likes()
DelLoadLikes ==
  \E w \in Writers :
    /\ writers[w].pc = "del_load_likes"
    /\ Step(w, "del_write_likes", load_likes)
    /\ cache' = Loaded({"likes"})
    /\ UNCHANGED <<session, round, files, now, nextId, last>>

\* delete_post: overwrite_df(likes[likes.post_id != post_id])
DelWriteLikes ==
  \E w \in Writers :
    LET df == held_frame(w)
        p == writers[w].a IN
    /\ writers[w].pc = "del_write_likes"
    /\ likes' = delete_post_likes(df, p)
    /\ round' = [round EXCEPT !.erased = @ \/
                   Erases(Filter(ReadCsv(likes), LAMBDA r : r.post_id # p),
                          Filter(df, LAMBDA r : r.post_id # p))]
    /\ Step(w, "del_read_comments", df)
    /\ UNCHANGED <<session, users, posts, comments, follows, reports,
                   cache, now, nextId, last>>

\* delete_post: cdf = pd.read_csv(COMMENTS_CSV)
DelReadComments ==
  \E w \in Writers :
    /\ writers[w].pc = "del_read_comments"
    /\ Step(w, "del_write_comments", ReadCsv(comments))
    /\ UNCHANGED <<session, round, files, cache, now, nextId, last>>

\* delete_post: cdf[cdf.post_id != post_id].to_csv(COMMENTS_CSV)
DelWriteComments ==
  \E w \in Writers :
    LET df == held_frame(w)
        p == writers[w].a IN
    /\ writers[w].pc = "del_write_comments"
    /\ comments' = overwrite_df(Filter(df, LAMBDA r : r.post_id # p))
    /\ round' = [round EXCEPT !.erased = @ \/
                   Erases(Filter(ReadCsv(comments), LAMBDA r : r.post_id # p),
                          Filter(df, LAMBDA r : r.post_id # p))]
    /\ Step(w, "clear", df)
    /\ UNCHANGED <<session, users, posts, likes, follows, reports,
                   cache, now, nextId, last>>

\* clear_data_caches() ends every mutator: six clear() calls, one cache
\* each, between which the other run may step.  A writer at ClearPc[i] is
\* about to clear the cache of CLEAR_ORDER[i].
CLEAR_ORDER == <<"users", "posts", "likes", "comments", "follows", "reports">>
ClearPc == <<"clear", "clear_posts", "clear_likes", "clear_comments",
             "clear_follows", "clear_reports">>

ClearCaches ==
  \E w \in Writers, i \in DOMAIN CLEAR_ORDER :
    /\ writers[w].pc = ClearPc[i]
    /\ cache' = [cache EXCEPT ![CLEAR_ORDER[i]] = NoEntry]
    /\ IF i < Len(CLEAR_ORDER)
       THEN /\ Step(w, ClearPc[i + 1], writers[w].df)
            /\ UNCHANGED last
       ELSE /\ Step(w, "done", writers[w].df)
            /\ last' = Call(writers[w].op, <<writers[w].a, writers[w].b>>, Done)
    /\ UNCHANGED <<session, round, files, now, nextId>>

BothDone == \A w \in Writers : writers[w].pc = "done"

\* both mutators have returned: the next pair may begin
NextPair ==
  /\ BothDone
  /\ round.n < MaxRounds
  /\ writers' = [w \in Writers |-> Idle]
  /\ round' = NewRound(round.n + 1)
  /\ UNCHANGED <<session, files, cache, now, nextId, last>>

\* the files after the mutator of w has run alone on the files F
RunAlone(F, w) ==
  LET o == writers[w] IN
  CASE o.op = "toggle_like" ->
         [F EXCEPT !.likes = toggle_like_file(F.likes, ReadCsv(F.likes),
                                              o.a, o.b, now)]
    [] o.op = "toggle_follow" ->
         [F EXCEPT !.follows = toggle_follow_file(F.follows, ReadCsv(F.follows),
                                                  o.a, o.b, now)]
    [] o.op = "delete_post" ->
         [F EXCEPT !.posts = delete_post_posts(ReadPosts(F.posts), o.a),
                   !.likes = delete_post_likes(ReadCsv(F.likes), o.a),
                   !.comments = delete_post_comments(F.comments, o.a)]

\* the files some sequential order of the two mutators leaves
SequentialOutcomes ==
  {RunAlone(RunAlone(round.start, 1), 2), RunAlone(RunAlone(round.start, 2), 1)}

\* ------------------------------------------------------ specifications
\* Registration, login and profile editing, with the inputs that tell
\* usernames and passwords apart by case, by blankness and by the CSV
\* round trip.
NextUsers ==
  \/ Tick
  \/ CreateUser
  \/ VerifyLogin
  \/ UpdateProfile

SpecUsers == Init /\ [][NextUsers]_vars

\* Composing, retweeting and deleting posts.
NextPosts ==
  \/ Tick
  \/ AddPost
  \/ AlreadyRetweeted
  \/ DeletePost

SpecPosts == Init /\ [][NextPosts]_vars

\* Liking, one writer at a time.
NextLikes ==
  \/ Tick
  \/ ToggleLike
  \/ LikeCount
  \/ DeletePost

SpecLikes == Init /\ [][NextLikes]_vars

\* Following.
NextFollows ==
  \/ Tick
  \/ ToggleFollow
  \/ IsFollowing

SpecFollows == Init /\ [][NextFollows]_vars

\* A post with its likes and comments, and its deletion.
PlainPost == \E a \in ArgIds : add_post(a, S_hi, NoId)
PlainComment == \E p \in ArgIds : add_comment(p, 1, S_hi, NoId)

NextCascade ==
  \/ PlainPost
  \/ ToggleLike
  \/ LikeCount
  \/ PlainComment
  \/ CommentsByPost
  \/ DeletePost

SpecCascade == Init /\ [][NextCascade]_vars

\* Every domain mutation and every load_* function, on one value of each
\* free-text input, in a store of at most MaxRows rows.
LoadTable ==
  \E t \in Tables :
    /\ cache' = Loaded({t})
    /\ UNCHANGED <<callers, files, now, nextId, last>>

TotalRows ==
  Len(users.rows) + Len(posts.rows) + Len(likes.rows)
    + Len(comments.rows) + Len(follows.rows) + Len(reports.rows)

HasRoom == TotalRows < MaxRows

PlainUser == HasRoom /\ create_user(S_al, S_pw)
RoomPost == HasRoom /\ PlainPost
RoomLike ==
  \E p \in ArgIds, u \in ArgIds :
    (HasRoom \/ has_liked(p, u)) /\ toggle_like(p, u)
RoomComment == HasRoom /\ PlainComment
RoomFollow ==
  \E a \in ArgIds, b \in ArgIds :
    (HasRoom \/ is_following(a, b)) /\ toggle_follow(a, b)
PlainProfile == \E u \in ArgIds : update_profile(u, S_hi, S_al)
PlainReport == HasRoom /\ \E t \in ArgIds : add_report(S_post, t, 1, S_hi)

Next ==
  \/ LoadTable
  \/ PlainUser
  \/ RoomPost
  \/ RoomLike
  \/ RoomComment
  \/ RoomFollow
  \/ PlainProfile
  \/ PlainReport
  \/ ResolveReport
  \/ DeletePost
  \/ DeleteComment

Spec == Init /\ [][Next]_vars

\* Every operation that validates its input, with inputs it accepts and
\* inputs it rejects.
TryNames == {S_al, S_Al, Blank, FormFeed}
TryPasswords == {S_pw, EmptyStr}
TryContents == {S_hi, Blank, FormFeed, X281}

TryUser == \E u \in TryNames, p \in TryPasswords : create_user(u, p)
TryPost == \E c \in TryContents : add_post(1, c, NoId)
TryComment == \E c \in TryContents : add_comment(1, 1, c, NoId)
TryReport == \E ty \in TargetTypes, r \in Reasons : add_report(ty, 1, 1, r)

NextReject ==
  \/ TryUser
  \/ TryPost
  \/ TryComment
  \/ TryReport

SpecReject == Init /\ [][NextReject]_vars

\* Searching the feed and counting hashtags, over users whose names do and
\* do not survive the CSV round trip and posts with one or two hashtags.
T_aA == <<"#", "a", " ", "#", "A">>
T_b == <<"#", "b">>
T_ba == <<"x", "#", "b", " ", "#", "a", "!">>
T_ab == <<"#", "a", "b">>
TagContents == {T_aA, T_b, T_ba, T_ab}

NamedUser == \E u \in {S_al, S_NaN} : create_user(u, S_pw)
TaggedPost == \E c \in TagContents : add_post(1, c, NoId)

NextSearch ==
  \/ NamedUser
  \/ TaggedPost
  \/ FilterPosts
  \/ Trending

SpecSearch == Init /\ [][NextSearch]_vars

\* Commenting, with contents that are blank, too long, or changed by the CSV
\* round trip.
NextComments ==
  \/ Tick
  \/ AddComment
  \/ CommentsByPost
  \/ DeleteComment

SpecComments == Init /\ [][NextComments]_vars

\* Reporting and resolving, next to the deletions a report may ask for.
FileReport ==
  \E t \in ArgIds, r \in {S_hi, S_NA} : add_report(S_post, t, 1, r)

NextReports ==
  \/ FileReport
  \/ ListReports
  \/ ResolveReport
  \/ DeletePost
  \/ DeleteComment

SpecReports == Init /\ [][NextReports]_vars

\* One browser session on a provisioned deployment: logging in and out,
\* posting, reporting, deleting and moderating.
NextUI ==
  \/ UiLogin
  \/ UiLogout
  \/ UiCompose
  \/ UiRetweet
  \/ UiReportPost
  \/ UiDeletePost
  \/ ModDeletePost
  \/ ModResolve

SpecUI == InitUI /\ [][NextUI]_vars

\* Two concurrent script runs, each inside toggle_like, toggle_follow or
\* delete_post, step by step.
NextRace ==
  \/ LikeLoad
  \/ LikeWrite
  \/ FollowLoad
  \/ FollowWrite
  \/ DelLoadPosts
  \/ DelWritePosts
  \/ DelLoadLikes
  \/ DelWriteLikes
  \/ DelReadComments
  \/ DelWriteComments
  \/ ClearCaches
  \/ NextPair

SpecRace == Init /\ [][NextRace]_vars

\* A data directory as a script run finds it, bootstrap at the start of each
\* run, and sign-ups in between.
NextBootstrap ==
  \/ bootstrap_data_files
  \/ BootSignup

SpecBootstrap == InitFound /\ [][NextBootstrap]_vars

\* One browser session on a fresh deployment: signing up, logging in and out,
\* and every mutation a logged-in session can trigger from the page.
NextSession ==
  \/ UiSignup
  \/ UiLogin
  \/ UiLogout
  \/ UiCompose
  \/ UiRetweet
  \/ UiLike
  \/ UiFollow
  \/ UiComment
  \/ UiProfile
  \/ UiReportPost
  \/ UiDeletePost

SpecSession == Init /\ [][NextSession]_vars

\* --------------------------------------------------------------- claims
\* C1 (SpecUsers): no two rows of users.csv have the same lowercased
\* username, whatever sequence of create_user calls ran.
C1_UniqueLowercasedUsername ==
  \A i, j \in DOMAIN users.rows :
    i # j => users.rows[i].username_lc # users.rows[j].username_lc

\* C2 (SpecUsers): verify_login(u, p) returns a row exactly when users.csv
\* holds a row whose username_lc is lower(u) and whose password is p.
C2_LoginIffStoredMatch ==
  last.op = "verify_login" =>
    (last.ret.found <=>
       \E i \in DOMAIN users.rows :
         /\ users.rows[i].username_lc = Lower(last.args[1])
         /\ users.rows[i].user_password = last.args[2])

\* the like counts before, after one and after two toggle_like(p, u) calls
LikesAfterOne(p, u) == toggle_like_file(likes, load_likes, p, u, now)
LikesAfterTwo(p, u) ==
  toggle_like_file(LikesAfterOne(p, u), ReadCsv(LikesAfterOne(p, u)), p, u, now)

\* C3 as stated (SpecLikes): from every state one toggle_like raises
\* like_count by one and two toggles restore it.
C3_OnceAlwaysAddsOne ==
  \A p \in ArgIds, u \in ArgIds :
    /\ CountLikes(ReadCsv(LikesAfterOne(p, u)), p) = like_count(p) + 1
    /\ CountLikes(ReadCsv(LikesAfterTwo(p, u)), p) = like_count(p)

\* C3 as amended (SpecLikes): two toggle_like(p, u) calls in a row restore
\* like_count(p); one call raises it by one when u has not liked p and
\* lowers it by one when u has.
C3_ToggleLikeCount ==
  \A p \in ArgIds, u \in ArgIds :
    /\ CountLikes(ReadCsv(LikesAfterOne(p, u)), p)
         = like_count(p) + (IF has_liked(p, u) THEN -1 ELSE 1)
    /\ CountLikes(ReadCsv(LikesAfterTwo(p, u)), p) = like_count(p)

\* toggle_like has just removed a like while another like is still stored
C3_Witness ==
  /\ last.op = "toggle_like"
  /\ ~has_liked(last.args[1], last.args[2])
  /\ likes.rows # <<>>

\* C4 (SpecLikes): likes.csv holds at most one row per (post, user) pair.
C4_OneLikePerPair ==
  \A i, j \in DOMAIN likes.rows :
    i # j => ~like_mask(likes.rows[i], likes.rows[j].post_id, likes.rows[j].user_id)

\* toggle_like has just inserted a second like
C4_Witness ==
  /\ last.op = "toggle_like"
  /\ has_liked(last.args[1], last.args[2])
  /\ Len(likes.rows) = 2

\* C5 (SpecPosts): posts.csv holds at most one retweet row per
\* (author, source post) pair.
C5_OneRetweetPerPair ==
  \A i, j \in DOMAIN posts.rows :
    i # j => ~retweet_mask(posts.rows[i], posts.rows[j].retweet_of_post_id,
                           posts.rows[j].author_id)

\* C6 (SpecCascade): when delete_post(p) has returned, no row of posts.csv,
\* likes.csv or comments.csv has post id p, and like_count(p) and
\* comments_by_post(p) are empty.
C6_DeleteCascades ==
  last.op = "delete_post" =>
    LET p == last.args[1] IN
    /\ \A i \in DOMAIN posts.rows : posts.rows[i].post_id # p
    /\ \A i \in DOMAIN likes.rows : likes.rows[i].post_id # p
    /\ \A i \in DOMAIN comments.rows : comments.rows[i].post_id # p
    /\ like_count(p) = 0
    /\ comments_by_post(p) = <<>>

\* delete_post has rewritten a posts file that had rows, and a like of
\* another post is still stored
C6_Witness ==
  /\ last.op = "delete_post"
  /\ DT_COLUMN \in ColumnSet(posts)
  /\ likes.rows # <<>>

\* C7 as stated (SpecPosts): without a retweet source add_post accepts
\* content of 280 characters and rejects content of 281 characters.
C7_RawLengthDecides ==
  (last.op = "add_post" /\ last.args[3] = NoId) =>
    /\ Len(last.args[2]) = MaxContentLen => last.ret.ok
    /\ Len(last.args[2]) = MaxContentLen + 1 => ~last.ret.ok

\* C7 as amended (SpecPosts): without a retweet source add_post accepts
\* content that is 280 characters long after trimming, appending one row
\* with the trimmed content, and rejects content that is 281 characters long
\* after trimming, appending nothing.
C7_TrimmedLengthDecides ==
  [][\A a \in ArgIds, c \in PostContents :
       add_post(a, c, NoId) =>
         /\ Len(Strip(c)) = MaxContentLen =>
              /\ last'.ret = Result(TRUE, MSG_POSTED)
              /\ Len(posts'.rows) = Len(posts.rows) + 1
              /\ SubSeq(posts'.rows, 1, Len(posts.rows)) = posts.rows
              /\ posts'.rows[Len(posts'.rows)].content = Strip(c)
         /\ Len(Strip(c)) = MaxContentLen + 1 =>
              /\ last'.ret = Result(FALSE, MSG_CONTENT_TOO_LONG)
              /\ posts' = posts]_vars

\* add_post has accepted 281 characters that trim to 280
C7_Witness ==
  /\ last.op = "add_post"
  /\ last.args[3] = NoId
  /\ Len(last.args[2]) = MaxContentLen + 1
  /\ last.ret.ok
  /\ Len(posts.rows[Len(posts.rows)].content) = MaxContentLen

\* C8 (SpecPosts): in every row of posts.csv the retweet flag is set exactly
\* when the source id is non-empty, the content has at most 280 characters,
\* and the content is empty only in a retweet.
C8_PostRowShape ==
  \A i \in DOMAIN posts.rows :
    LET r == posts.rows[i] IN
    /\ r.is_retweet = S_True <=> r.retweet_of_post_id # NoId
    /\ Len(r.content) <= MaxContentLen
    /\ r.content = EmptyStr => r.is_retweet = S_True

\* C9 (Spec): a cached frame is the frame a fresh read of the file gives, so
\* the load after any mutation returns the persisted rows.
C9_CacheCoherent ==
  \A t \in Tables : cache[t].hit => cache[t].df = ReadTable(t)

\* delete_post has returned and load_comments has then read a comment that
\* is still stored
C9_Witness ==
  /\ last.op = "delete_post"
  /\ cache["comments"].hit
  /\ cache["comments"].df.rows # <<>>

\* the (follower, followee) pairs of a follows frame
FollowPairs(df) ==
  {<<df.rows[i].follower_id, df.rows[i].followee_id>> : i \in DOMAIN df.rows}

FollowsAfterOne(a, b) == toggle_follow_file(follows, load_follows, a, b, now)
FollowsAfterTwo(a, b) ==
  toggle_follow_file(FollowsAfterOne(a, b), ReadCsv(FollowsAfterOne(a, b)), a, b, now)

C10_State ==
  /\ \A i \in DOMAIN follows.rows :
       follows.rows[i].follower_id # follows.rows[i].followee_id
  /\ \A a \in ArgIds : is_following(a, a)
  /\ \A a \in ArgIds, b \in ArgIds :
       a # b =>
         /\ IF is_following(a, b)
            THEN /\ FollowPairs(FollowsAfterOne(a, b))
                      = FollowPairs(follows) \ {<<a, b>>}
                 /\ Len(FollowsAfterOne(a, b).rows) = Len(follows.rows) - 1
            ELSE FollowsAfterOne(a, b).rows
                   = Append(follows.rows, NewFollow(a, b, now))
         /\ FollowPairs(FollowsAfterTwo(a, b)) = FollowPairs(follows)
         /\ Len(FollowsAfterTwo(a, b).rows) = Len(follows.rows)

\* C10 (SpecFollows): toggle_follow(a, a) leaves follows.csv as it is, no
\* row has follower = followee, is_following(a, a) always holds, and for
\* a # b toggle_follow removes the (a, b) row when present, appends exactly
\* one otherwise, and two toggles in a row restore the follow relation.
C10_ToggleFollow ==
  /\ []C10_State
  /\ [][\A a \in ArgIds : toggle_follow(a, a) => follows' = follows]_vars

\* toggle_follow has just removed a follow while another one is still stored
C10_Witness ==
  /\ last.op = "toggle_follow"
  /\ last.args[1] # last.args[2]
  /\ ~is_following(last.args[1], last.args[2])
  /\ follows.rows # <<>>

\* the messages a rejecting operation may return
RejectMessages(op) ==
  CASE op = "create_user" -> {MSG_NO_USERNAME, MSG_NO_PASSWORD, MSG_DUP_USERNAME}
    [] op = "add_post" -> {MSG_NO_CONTENT, MSG_CONTENT_TOO_LONG}
    [] op = "add_comment" -> {MSG_NO_COMMENT, MSG_COMMENT_TOO_LONG}
    [] op = "add_report" -> {MSG_BAD_TARGET, MSG_NO_REASON}

\* the inputs the call must reject: a blank username or password, empty or
\* over-long content, an unknown target type, a blank reason
MustReject(call) ==
  CASE call.op = "create_user" ->
         Strip(call.args[1]) = EmptyStr \/ Strip(call.args[2]) = EmptyStr
    [] call.op = "add_post" ->
         Strip(call.args[2]) = EmptyStr \/ Len(Strip(call.args[2])) > MaxContentLen
    [] call.op = "add_comment" ->
         Strip(call.args[3]) = EmptyStr \/ Len(Strip(call.args[3])) > MaxContentLen
    [] call.op = "add_report" ->
         \/ Lower(call.args[1]) \notin {S_post, S_comment}
         \/ Strip(call.args[4]) = EmptyStr

\* C11 (SpecReject): create_user, add_post, add_comment and add_report
\* reject blank usernames and passwords, empty and over-280 content, target
\* types other than post / comment and blank reasons; every rejection (the
\* duplicate username included) returns a (False, message) pair and leaves
\* all six files as they were.
C11_RejectionsChangeNothing ==
  [][last'.op \in {"create_user", "add_post", "add_comment", "add_report"} =>
       /\ MustReject(last') => ~last'.ret.ok
       /\ ~last'.ret.ok => /\ last'.ret.msg \in RejectMessages(last'.op)
                           /\ files' = files]_vars

\* create_user has rejected a duplicate of a stored username
C11_Witness ==
  /\ last.op = "create_user"
  /\ last.ret = Result(FALSE, MSG_DUP_USERNAME)
  /\ users.rows # <<>>

\* the stored admin flag of the user the session belongs to
SessionIsAdmin ==
  \E j \in DOMAIN users.rows :
    /\ users.rows[j].user_id = session.row.user_id
    /\ users.rows[j].is_admin = S_True

\* C12 (SpecUI): a step of the user interface removes a post from posts.csv
\* only when the session is logged in and its user is the post's author or a
\* user whose stored admin flag is true.
C12_DeleteByAuthorOrAdmin ==
  [][\A i \in DOMAIN posts.rows :
       (\A k \in DOMAIN posts'.rows :
          posts'.rows[k].post_id # posts.rows[i].post_id)
       => /\ session.found
          /\ \/ session.row.user_id = posts.rows[i].author_id
             \/ SessionIsAdmin]_vars

\* a member has deleted a post: only the author's own delete button does that
C12_Witness ==
  /\ last = Call("delete_post", <<1>>, Done)
  /\ session.found
  /\ session.row.user_id = AlId
  /\ posts.rows = <<>>

\* C13 (SpecReports): a report row is appended unresolved and is never
\* removed; its resolved flag changes only from False to True and only in a
\* resolve_report call on its own id; resolve_report on an id that matches no
\* report writes nothing.
C13_ReportsOnlyGetResolved ==
  [][/\ \A i \in DOMAIN reports.rows :
          /\ i \in DOMAIN reports'.rows
          /\ reports'.rows[i].report_id = reports.rows[i].report_id
          /\ reports'.rows[i].resolved # reports.rows[i].resolved
               => /\ reports.rows[i].resolved = S_False
                  /\ reports'.rows[i].resolved = S_True
                  /\ last' = Call("resolve_report",
                                  <<reports.rows[i].report_id>>, Done)
     /\ \A i \in DOMAIN reports'.rows :
          i \notin DOMAIN reports.rows => reports'.rows[i].resolved = S_False
     /\ \A r \in ArgIds :
          (/\ resolve_report(r)
           /\ \A i \in DOMAIN reports.rows : reports.rows[i].report_id # r)
          => files' = files]_vars

\* one report has been resolved and another one is still open
C13_Witness ==
  /\ last.op = "resolve_report"
  /\ \E i, j \in DOMAIN reports.rows :
       /\ reports.rows[i].report_id = last.args[1]
       /\ reports.rows[i].resolved = S_True
       /\ reports.rows[j].resolved = S_False

\* C14 (SpecPosts): every persisted file has exactly the columns of its
\* record type, in schema order, whatever operations have run.
C14_PersistedColumns ==
  /\ users.columns = USERS_COLUMNS
  /\ posts.columns = POSTS_COLUMNS
  /\ likes.columns = LIKES_COLUMNS
  /\ comments.columns = COMMENTS_COLUMNS
  /\ follows.columns = FOLLOWS_COLUMNS
  /\ reports.columns = REPORTS_COLUMNS

\* a hashtag token equal to tag (in lower case) starts at position i of content
TokenAt(content, i, tag) ==
  LET n == Len(tag) IN
  /\ n >= 1
  /\ content[i] = "#"
  /\ i + n <= Len(content)
  /\ \A k \in 1..n : content[i + k] \in WordChars
  /\ Lower(SubSeq(content, i + 1, i + n)) = tag
  /\ i + n < Len(content) => content[i + n + 1] \notin WordChars

\* the stored posts a query asks for, in the order of the feed
MatchingPosts(query) ==
  IF query = EmptyStr THEN SortByTimeDesc(posts.rows)
  ELSE
    LET name == Lower(Tail(Strip(query))) IN
    IF StartsWith(Strip(query), "@")
    THEN SelectSeq(SortByTimeDesc(posts.rows),
                   LAMBDA r : \E j \in DOMAIN users.rows :
                                /\ users.rows[j].user_id = r.author_id
                                /\ users.rows[j].username_lc = name)
    ELSE SelectSeq(SortByTimeDesc(posts.rows),
                   LAMBDA r : \E i \in DOMAIN r.content :
                                TokenAt(r.content, i, name))

PostIds(rows) == [i \in DOMAIN rows |-> rows[i].post_id]

\* C15 (SpecSearch): for an empty query, a query "@name" and a query "#tag",
\* filter_posts_by_query returns exactly the posts of the users whose
\* lowercased username is lowercase(name), exactly the posts whose content has
\* the hashtag token #tag compared case-insensitively, and all posts for the
\* empty query.
C15_ExactlyTheMatchingPosts ==
  (/\ last.op = "filter_posts_by_query"
   /\ \/ last.args[1] = EmptyStr
      \/ StartsWith(Strip(last.args[1]), "@")
      \/ StartsWith(Strip(last.args[1]), "#"))
  => PostIds(last.ret) = PostIds(MatchingPosts(last.args[1]))

\* the rows trending_hashtags is given: the posts as load_posts returns them
TrendRows == ReadPosts(posts).rows

\* the places (row, position) where the hashtag token #tag stands
Occurrences(tag) ==
  UNION {{<<r, i>> : i \in {k \in DOMAIN TrendRows[r].content :
                              TokenAt(TrendRows[r].content, k, tag)}} :
         r \in DOMAIN TrendRows}

Occ(tag) == Cardinality(Occurrences(tag))

\* tag t1 is seen before tag t2
SeenBefore(t1, t2) ==
  \E o1 \in Occurrences(t1) :
    \A o2 \in Occurrences(t2) :
      o1[1] < o2[1] \/ (o1[1] = o2[1] /\ o1[2] < o2[2])

\* the lower-cased tags of the contents of SpecSearch
KnownTags == {<<"a">>, <<"b">>, <<"a", "b">>}

\* C16 (SpecSearch): trending_hashtags(posts, K) returns at most K pairs
\* (tag, count) of distinct lower-cased tags, count being the number of
\* occurrences of the tag in all posts, by decreasing count with ties in
\* first-seen order; no omitted tag has a higher count than a returned one;
\* for the hashtags #a, #a, #b and K = 2 it returns <<("a", 2), ("b", 1)>>.
C16_TrendingHashtags ==
  last.op = "trending_hashtags" =>
    LET res == last.ret
        K == last.args[1] IN
    /\ Len(res) <= K
    /\ \A i \in DOMAIN res :
         /\ res[i][1] = Lower(res[i][1])
         /\ res[i][2] >= 1
         /\ res[i][2] = Occ(res[i][1])
    /\ \A i, j \in DOMAIN res :
         i < j => /\ res[i][1] # res[j][1]
                  /\ \/ res[i][2] > res[j][2]
                     \/ /\ res[i][2] = res[j][2]
                        /\ SeenBefore(res[i][1], res[j][1])
    /\ \A t \in KnownTags :
         (Occ(t) >= 1 /\ \A i \in DOMAIN res : res[i][1] # t)
         => /\ Len(res) = K
            /\ \A i \in DOMAIN res : res[i][2] >= Occ(t)
    /\ ([r \in DOMAIN TrendRows |-> TrendRows[r].content] = <<T_aA, T_b>> /\ K = 2)
         => res = << <<(<<"a">>), 2>>, <<(<<"b">>), 1>> >>

\* the hashtags #a, #A, #b have been counted with K = 2
C16_Witness ==
  /\ last.op = "trending_hashtags"
  /\ last.args[1] = 2
  /\ [r \in DOMAIN TrendRows |-> TrendRows[r].content] = <<T_aA, T_b>>
  /\ last.ret = << <<(<<"a">>), 2>>, <<(<<"b">>), 1>> >>

\* C17 (SpecUsers): update_profile changes the bio and avatar of the row of
\* the given id and nothing else in any file, changes nothing when no row has
\* the id, and no step removes a user row.
C17_UpdateProfileFrame ==
  [][/\ \A u \in ArgIds, b \in Bios, a \in Avatars :
          update_profile(u, b, a) =>
            /\ Len(users'.rows) = Len(users.rows)
            /\ users'.columns = users.columns
            /\ \A i \in DOMAIN users.rows :
                 users'.rows[i] =
                   IF users.rows[i].user_id = u
                   THEN [users.rows[i] EXCEPT !.bio = b, !.avatar_url = a]
                   ELSE users.rows[i]
            /\ UNCHANGED <<posts, likes, comments, follows, reports>>
     /\ \A i \in DOMAIN users.rows :
          \E j \in DOMAIN users'.rows :
            users'.rows[j].user_id = users.rows[i].user_id]_vars

\* C18 (SpecComments): delete_comment(c) removes the comment rows whose id is
\* c and leaves every other comment row and every other file as it was.
C18_DeleteCommentFrame ==
  [][\A c \in ArgIds :
       delete_comment(c) =>
         /\ comments'.rows = SelectSeq(comments.rows, LAMBDA r : r.comment_id # c)
         /\ UNCHANGED <<users, posts, likes, follows, reports>>]_vars

\* a post row without the derived column of load_posts
SchemaCells(r) ==
  [c \in {POSTS_COLUMNS[i] : i \in DOMAIN POSTS_COLUMNS} |-> r[c]]

SchemaRows(rows) == [i \in DOMAIN rows |-> SchemaCells(rows[i])]

\* C20 (SpecPosts): delete_post(p) leaves the schema cells of every post row
\* other than p (retweets of p included), the likes and comments of other
\* posts and the users, follows and reports files as they were, and removes no
\* row when no post has the id p.
C20_DeletePostFrame ==
  [][\A p \in ArgIds :
       delete_post(p) =>
         /\ SchemaRows(posts'.rows) =
              SchemaRows(SelectSeq(posts.rows, LAMBDA r : r.post_id # p))
         /\ SelectSeq(likes'.rows, LAMBDA r : r.post_id # p) =
              SelectSeq(likes.rows, LAMBDA r : r.post_id # p)
         /\ SelectSeq(comments'.rows, LAMBDA r : r.post_id # p) =
              SelectSeq(comments.rows, LAMBDA r : r.post_id # p)
         /\ UNCHANGED <<users, follows, reports>>
         /\ (\A i \in DOMAIN posts.rows : posts.rows[i].post_id # p)
              => /\ Len(posts'.rows) = Len(posts.rows)
                 /\ Len(likes'.rows) = Len(likes.rows)
                 /\ Len(comments'.rows) = Len(comments.rows)]_vars

\* two rows of the likes file are for the same post and user
DuplicateLike ==
  \E i, j \in DOMAIN likes.rows :
    /\ i < j
    /\ likes.rows[i].post_id = likes.rows[j].post_id
    /\ likes.rows[i].user_id = likes.rows[j].user_id

\* C19 (SpecRace): when the load and write steps of two concurrent mutators
\* interleave, the files reach states no sequential order of the two
\* produces. Two toggles of the same pair that both load before either
\* writes, and an overwrite of a held frame that erases a row the other
\* mutator appended meanwhile, always end in such a state; two mutators that
\* do not overlap never do.
C19_InterleavingsNotSerializable ==
  BothDone =>
    /\ round.together => Store \notin SequentialOutcomes
    /\ round.erased => Store \notin SequentialOutcomes
    /\ ~round.overlap => Store \in SequentialOutcomes

\* an overwrite has erased the other mutator's appended row, and no
\* sequential order gives the files that result
C19_Witness ==
  /\ BothDone
  /\ round.erased
  /\ ~round.together
  /\ Store \notin SequentialOutcomes

\* the files as a sequence, in the order of Schemas
FileSeq == <<users, posts, likes, comments, follows, reports>>
Schemas == <<USERS_COLUMNS, POSTS_COLUMNS, LIKES_COLUMNS, COMMENTS_COLUMNS,
             FOLLOWS_COLUMNS, REPORTS_COLUMNS>>

\* bootstrap took file f with schema R to file g as the claim describes
BootstrapKeeps(f, g, R) ==
  IF f = NoFile THEN g = EmptyCsv(R)
  ELSE /\ g.columns = R \o ExtraColumns(f, R)
       /\ DOMAIN g.rows = DOMAIN f.rows
       /\ \A i \in DOMAIN f.rows :
            /\ \A c \in ColumnSet(f) : g.rows[i][c] = f.rows[i][c]
            /\ \A c \in ColumnSet(g) \ ColumnSet(f) :
                 g.rows[i][c] = MissingCell(c)

\* C21 (SpecBootstrap): bootstrap creates a missing file header-only, keeps
\* every cell of an existing file, adds each missing required column with
\* empty strings, puts the required columns first with the other columns
\* after them, and a second bootstrap leaves every file as the first left it.
C21_BootstrapKeepsRows ==
  [][last'.op = "bootstrap_data_files" =>
       \A t \in DOMAIN Schemas :
         /\ BootstrapKeeps(FileSeq[t], FileSeq'[t], Schemas[t])
         /\ bootstrap_file(FileSeq'[t], Schemas[t]) = FileSeq'[t]]_vars

\* the step is a login for which verify_login returned a user row
LoginSucceeds ==
  /\ last'.op = "verify_login"
  /\ last'.ret.found
  /\ session' = last'.ret

\* C22 (SpecSession): the session becomes logged-in only in a step in which
\* verify_login returned a user row, which it then holds, and logged-out only
\* by the logout button; a failed login, a sign-up, successful or not, and
\* every domain mutation leave the session as it was.
C22_SessionStatus ==
  [][/\ (~session.found /\ session'.found) => LoginSucceeds
     /\ (session.found /\ ~session'.found) => UiLogout
     /\ ((last' # last \/ files' # files) /\ ~LoginSucceeds)
          => session' = session]_vars

\* a user who signed up and logged in has posted and liked, and is still
\* logged in as that user
C22_Witness ==
  /\ session.found
  /\ last.op = "toggle_like"
  /\ \E i \in DOMAIN users.rows : users.rows[i].user_id = session.row.user_id
  /\ \E i \in DOMAIN likes.rows : likes.rows[i].user_id = session.row.user_id

====
